---- MODULE Spec2Model ----
(***************************************************************************)
(* Model of ml-service/generate_synthetic_data.py (SyntheticDataGenerator): *)
(* calculate_indicators, generate_signals, simulate_trades and the          *)
(* per-instrument loop of generate_dataset.                                 *)
(*                                                                          *)
(* Floating point values are carried as exact rationals n/d (d > 0), with   *)
(* NaN and the two infinities as separate kinds, so that a division by      *)
(* zero, a comparison with NaN and an exact threshold (pnl = 0.5, rsi = 30) *)
(* behave as IEEE arithmetic does on exactly representable inputs.          *)
(* Columns whose values need irrational or unboundedly wide arithmetic      *)
(* (the exponentially weighted means and the Bollinger standard deviation)  *)
(* keep their exact definedness and take their values from a small set of   *)
(* representative profiles.                                                 *)
(***************************************************************************)
EXTENDS Integers, Sequences, FiniteSets, TLC

VARIABLES
    pc,                     \* position in generate_dataset's loop body
    coins,                  \* the instrument list passed to generate_dataset
    coin_idx,               \* 1-based position of the for loop over coins
    ohlcv,                  \* candles fetched for the current coin
    ohlcv_with_indicators,  \* calculate_indicators' output for the current coin
    signals,                \* generate_signals' output for the current coin
    trades,                 \* simulate_trades' returned table (rows)
    exits,                  \* simulate_trades' locals per trade: SL, TP, exit_price, exit_idx
    all_trades,             \* generate_dataset's list of per-coin tables
    combined,               \* generate_dataset's returned table
    raised,                 \* the exception in flight or leaving generate_dataset
    processed               \* log: per finished coin, what it produced

vars == <<pc, coins, coin_idx, ohlcv, ohlcv_with_indicators, signals, trades,
          exits, all_trades, combined, raised, processed>>

(***************************************************************************)
(* float64 values                                                           *)
(***************************************************************************)
NaN == [k |-> "nan", n |-> 0, d |-> 1]

PosInf == [k |-> "inf", n |-> 1, d |-> 1]

NegInf == [k |-> "inf", n |-> -1, d |-> 1]

Rat(a, b) == [k |-> "num", n |-> a, d |-> b]

Num(a) == Rat(a, 1)

\* pd.isna
isna(x) == x.k = "nan"

Sign(a) == IF a > 0 THEN 1 ELSE IF a < 0 THEN -1 ELSE 0

FNeg(x) == IF isna(x) THEN NaN ELSE [x EXCEPT !.n = -x.n]

FAdd(x, y) ==
    IF isna(x) \/ isna(y) THEN NaN
    ELSE IF x.k = "inf" /\ y.k = "inf" THEN (IF x.n = y.n THEN x ELSE NaN)
    ELSE IF x.k = "inf" THEN x
    ELSE IF y.k = "inf" THEN y
    ELSE IF x.d = y.d THEN Rat(x.n + y.n, x.d)
    ELSE Rat(x.n * y.d + y.n * x.d, x.d * y.d)

FSub(x, y) == FAdd(x, FNeg(y))

FMul(x, y) ==
    IF isna(x) \/ isna(y) THEN NaN
    ELSE IF x.k = "inf" \/ y.k = "inf" THEN
        (IF x.n = 0 \/ y.n = 0 THEN NaN
         ELSE IF Sign(x.n) * Sign(y.n) > 0 THEN PosInf ELSE NegInf)
    ELSE Rat(x.n * y.n, x.d * y.d)

\* float division as numpy does it: x/0 is +-inf, 0/0 is NaN, nothing raises
FDiv(x, y) ==
    IF isna(x) \/ isna(y) THEN NaN
    ELSE IF x.k = "inf" /\ y.k = "inf" THEN NaN
    ELSE IF y.k = "inf" THEN Num(0)
    ELSE IF x.k = "inf" THEN (IF Sign(x.n) * Sign(y.n) >= 0 THEN PosInf ELSE NegInf)
    ELSE IF y.n = 0 THEN
        (IF x.n = 0 THEN NaN ELSE IF x.n > 0 THEN PosInf ELSE NegInf)
    ELSE IF y.n > 0 THEN Rat(x.n * y.d, x.d * y.n)
    ELSE Rat(-(x.n * y.d), -(x.d * y.n))

\* comparisons: every comparison with NaN is False
FLt(x, y) ==
    IF isna(x) \/ isna(y) THEN FALSE
    ELSE IF x.k = "inf" THEN (x.n < 0 /\ ~(y.k = "inf" /\ y.n < 0))
    ELSE IF y.k = "inf" THEN y.n > 0
    ELSE x.n * y.d < y.n * x.d

FGt(x, y) == FLt(y, x)

FEq(x, y) ==
    IF isna(x) \/ isna(y) THEN FALSE
    ELSE IF x.k = "inf" \/ y.k = "inf" THEN (x.k = y.k /\ x.n = y.n)
    ELSE x.n * y.d = y.n * x.d

FLe(x, y) == FLt(x, y) \/ FEq(x, y)

FGe(x, y) == FLe(y, x)

\* same stored bits, NaN included (used to compare tables, not floats)
Same(x, y) == (isna(x) /\ isna(y)) \/ FEq(x, y)

Min2(a, b) == IF a < b THEN a ELSE b

Max2(a, b) == IF a > b THEN a ELSE b

(***************************************************************************)
(* Tables: a DataFrame is a sequence of rows; row i of the code (0-based)   *)
(* is element i+1 of the sequence.  The candle columns (open, high, low,    *)
(* close, volume) hold finite numbers, carried as integers (price ticks);   *)
(* every derived column is a float64 value as above.                        *)
(***************************************************************************)
iloc(df, i) == df[i + 1]

\* a table or column with every element evaluated once
built(seq) == seq \o <<>>

RECURSIVE extend(_, _, _)
\* acc, the running sums of rows 1..Len(acc), extended to row upto
extend(f, upto, acc) ==
    IF Len(acc) >= upto THEN acc
    ELSE LET r == Len(acc) + 1
         IN  extend(f, upto, Append(acc, (IF r = 1 THEN 0 ELSE acc[r - 1]) + f[r]))

RECURSIVE running(_, _, _)
\* the running sums of column f over rows 1..n (the add/remove sums that
\* rolling(...).mean() keeps), built sixteen rows at a time
running(f, n, acc) ==
    IF Len(acc) >= n THEN acc
    ELSE running(f, n, extend(f, Min2(n, Len(acc) + 16), acc))

\* sum of the w rows ending at row r (1-based), r >= w
window(P, r, w) == P[r] - (IF r = w THEN 0 ELSE P[r - w])

\* Series.rolling(window=w).mean() at row r: NaN until w values exist
rolling_mean(P, r, w) == IF r < w THEN NaN ELSE Rat(window(P, r, w), w)

\* 100 - (100 / (1 + rs))
rsi_of(rs) == FSub(Num(100), FDiv(Num(100), FAdd(Num(1), rs)))

Abs(a) == IF a < 0 THEN -a ELSE a

(***************************************************************************)
(* calculate_indicators.  ew carries the values of the columns that are not *)
(* computed at exact width: macd, macd_histogram, ema_9, ema_21, ema_50     *)
(* (ewm means of close: defined on every row, as every close is a number)   *)
(* and bb_width, price_to_bb when the 20-bar standard deviation is not      *)
(* zero.  The input table is copied (df = df.copy()): the result is a new   *)
(* table and the argument is left as it was.                                *)
(***************************************************************************)
calculate_indicators(df, ew) ==
    LET N == Len(df)
        \* close.diff(); the first row's NaN fails both where() tests and becomes 0
        delta == [r \in 1..N |-> IF r = 1 THEN 0 ELSE df[r].close - df[r - 1].close]
        up == running([r \in 1..N |-> IF delta[r] > 0 THEN delta[r] ELSE 0], N, <<>>)
        down == running([r \in 1..N |-> IF delta[r] < 0 THEN -delta[r] ELSE 0], N, <<>>)
        moved == running([r \in 1..N |-> Abs(delta[r])], N, <<>>)
        closes == running([r \in 1..N |-> df[r].close], N, <<>>)
        volumes == running([r \in 1..N |-> df[r].volume], N, <<>>)
        \* np.max over (high-low, |high-prev close|, |low-prev close|), NaN skipped
        true_range ==
            running([r \in 1..N |->
                       IF r = 1 THEN df[r].high - df[r].low
                       ELSE Max2(df[r].high - df[r].low,
                                 Max2(Abs(df[r].high - df[r - 1].close),
                                      Abs(df[r].low - df[r - 1].close)))], N, <<>>)
    IN  [r \in 1..N |->
           LET sma20 == rolling_mean(closes, r, 20)
               \* rolling(20).std() is 0: the 20 closes are equal
               std0 == r >= 20 /\ window(moved, r, 19) = 0
               volume_sma == rolling_mean(volumes, r, 20)
               shift5 == IF r <= 5 THEN NaN ELSE Num(df[r - 5].close)
           IN
           [timestamp |-> df[r].timestamp, open |-> df[r].open, high |-> df[r].high,
            low |-> df[r].low, close |-> df[r].close, volume |-> df[r].volume,
            rsi |-> rsi_of(FDiv(rolling_mean(up, r, 14), rolling_mean(down, r, 14))),
            macd |-> ew.macd,
            macd_histogram |-> ew.macd_histogram,
            bb_width |-> IF isna(sma20) THEN NaN
                         ELSE IF std0 THEN FDiv(Num(0), sma20)
                         ELSE ew.bb_width,
            price_to_bb |-> IF isna(sma20) \/ std0 THEN NaN ELSE ew.price_to_bb,
            ema_9 |-> ew.ema_9,
            ema_21 |-> ew.ema_21,
            ema_50 |-> ew.ema_50,
            volume_ratio |-> FDiv(Num(df[r].volume), volume_sma),
            atr |-> rolling_mean(true_range, r, 14),
            price_momentum |->
                FMul(FDiv(FSub(Num(df[r].close), shift5), shift5), Num(100))]]

(***************************************************************************)
(* generate_signals                                                         *)
(***************************************************************************)
WarmUp == 100

MinConfluence == 50

\* "Skip if indicators not ready"
skip_row(row) == isna(row.rsi) \/ isna(row.macd)

\* the confluence scoring of one row: the if/elif chain, in source order
score_row(row) ==
    LET signal_type == IF FLt(row.rsi, Num(30)) THEN "BUY"
                       ELSE IF FGt(row.rsi, Num(70)) THEN "SELL"
                       ELSE "None"
        c_rsi == IF signal_type = "None" THEN 0 ELSE 20
        c_macd == IF FGt(row.macd_histogram, Num(0)) /\ signal_type = "BUY" THEN 15
                  ELSE IF FLt(row.macd_histogram, Num(0)) /\ signal_type = "SELL" THEN 15
                  ELSE 0
        c_ema == IF FGt(row.ema_9, row.ema_21) /\ FGt(row.ema_21, row.ema_50)
                    /\ signal_type = "BUY" THEN 15
                 ELSE IF FLt(row.ema_9, row.ema_21) /\ FLt(row.ema_21, row.ema_50)
                    /\ signal_type = "SELL" THEN 15
                 ELSE 0
        c_bb == IF FLt(row.price_to_bb, Rat(2, 10)) /\ signal_type = "BUY" THEN 10
                ELSE IF FGt(row.price_to_bb, Rat(8, 10)) /\ signal_type = "SELL" THEN 10
                ELSE 0
        c_vol == IF FGt(row.volume_ratio, Rat(12, 10)) THEN 10 ELSE 0
    IN  [signal_type |-> signal_type,
         confluence |-> c_rsi + c_macd + c_ema + c_bb + c_vol]

\* variant: the threshold is one rule lower
keep_signal_low(confluence, signal_type) ==
    confluence >= MinConfluence - 5 /\ signal_type # "None"

\* "Only keep signals with decent confluence"
keep_signal(confluence, signal_type) ==
    confluence >= MinConfluence /\ signal_type # "None"

\* the dict appended for row i
make_signal(i, row, sc) ==
    [index |-> i, timestamp |-> row.timestamp, signal_type |-> sc.signal_type,
     confluence |-> sc.confluence, entry_price |-> Num(row.close),
     rsi |-> row.rsi, macd |-> row.macd, macd_histogram |-> row.macd_histogram,
     ema_9 |-> row.ema_9, ema_21 |-> row.ema_21, ema_50 |-> row.ema_50,
     bb_width |-> row.bb_width, atr |-> row.atr,
     volume_ratio |-> row.volume_ratio, price_momentum |-> row.price_momentum]

\* variant: the loop starts one row early
first_row_early == WarmUp - 1

\* first row of the loop: range(100, len(df))
first_row == WarmUp

\* what the loop body does with row i: the dict it appends, if any
visit_row(df, i) ==
    LET row == iloc(df, i)
        sc == score_row(row)
    IN  [emit |-> ~skip_row(row) /\ keep_signal(sc.confluence, sc.signal_type),
         signal |-> make_signal(i, row, sc)]

\* for i in range(100, len(df)): the appended dicts, in row order
generate_signals(df) ==
    LET visited == built([k \in 1..(Len(df) - first_row) |->
                            visit_row(df, first_row + k - 1)])
        emitted(v) == v.emit
        kept == SelectSeq(visited, emitted)
    IN  [k \in 1..Len(kept) |-> kept[k].signal]

(***************************************************************************)
(* simulate_trades                                                          *)
(***************************************************************************)
ExitOffset == 100

ScanOffset == 100

\* variant: the stop-loss is two ATR away
levels_wide(signal_type, entry_price, atr) ==
    IF signal_type = "BUY"
    THEN [stop_loss |-> FSub(entry_price, FMul(atr, Num(2))),
          take_profit |-> FAdd(entry_price, FMul(atr, Num(3)))]
    ELSE [stop_loss |-> FAdd(entry_price, FMul(atr, Num(2))),
          take_profit |-> FSub(entry_price, FMul(atr, Num(3)))]

\* stop_loss and take_profit from the signal's ATR
levels(signal_type, entry_price, atr) ==
    IF signal_type = "BUY"
    THEN [stop_loss |-> FSub(entry_price, FMul(atr, Rat(3, 2))),
          take_profit |-> FAdd(entry_price, FMul(atr, Num(3)))]
    ELSE [stop_loss |-> FAdd(entry_price, FMul(atr, Rat(3, 2))),
          take_profit |-> FSub(entry_price, FMul(atr, Num(3)))]

\* variant: the reference bar of TIME_EXPIRED is the last scanned bar
default_exit_idx_short(entry_idx, n) == Min2(entry_idx + ExitOffset - 1, n - 1)

\* exit_idx = min(entry_idx + 100, len(df) - 1)
default_exit_idx(entry_idx, n) == Min2(entry_idx + ExitOffset, n - 1)

\* the last row of range(entry_idx + 1, min(entry_idx + 100, len(df)))
last_scanned(entry_idx, n) == Min2(entry_idx + ScanOffset, n) - 1

\* candle[...] >= level and candle[...] <= level for a finite candle value:
\* False when the level is NaN
ge_level(a, x) ==
    IF x.k = "num" THEN a * x.d >= x.n ELSE IF x.k = "inf" THEN x.n < 0 ELSE FALSE

le_level(a, x) ==
    IF x.k = "num" THEN a * x.d <= x.n ELSE IF x.k = "inf" THEN x.n > 0 ELSE FALSE

\* variant: SL is tested before TP
check_candle_sl_first(signal_type, candle, lv) ==
    IF signal_type = "BUY"
    THEN IF le_level(candle.low, lv.stop_loss) THEN "SL_HIT"
         ELSE IF ge_level(candle.high, lv.take_profit) THEN "TP_HIT"
         ELSE "OPEN"
    ELSE IF ge_level(candle.high, lv.stop_loss) THEN "SL_HIT"
         ELSE IF le_level(candle.low, lv.take_profit) THEN "TP_HIT"
         ELSE "OPEN"

\* the body of the scan loop for one candle: TP is tested before SL
check_candle(signal_type, candle, lv) ==
    IF signal_type = "BUY"
    THEN IF ge_level(candle.high, lv.take_profit) THEN "TP_HIT"
         ELSE IF le_level(candle.low, lv.stop_loss) THEN "SL_HIT"
         ELSE "OPEN"
    ELSE IF le_level(candle.low, lv.take_profit) THEN "TP_HIT"
         ELSE IF ge_level(candle.high, lv.stop_loss) THEN "SL_HIT"
         ELSE "OPEN"

\* variant: the loop has no break, a later hit overwrites an earlier one
scan_rows_no_break(df, signal_type, lv, i, last, dflt) ==
    LET hits == {j \in i..last : check_candle(signal_type, iloc(df, j), lv) # "OPEN"}
    IN  IF hits = {} THEN dflt
        ELSE LET j == CHOOSE x \in hits : \A y \in hits : y <= x
                 hit == check_candle(signal_type, iloc(df, j), lv)
             IN  [outcome |-> hit,
                  exit_price |-> IF hit = "TP_HIT" THEN lv.take_profit
                                 ELSE lv.stop_loss,
                  exit_idx |-> j]

RECURSIVE scan_rows(_, _, _, _, _, _)
\* the scan loop over rows i..last; dflt is the state when no row breaks
scan_rows(df, signal_type, lv, i, last, dflt) ==
    IF i > last THEN dflt
    ELSE LET hit == check_candle(signal_type, iloc(df, i), lv)
         IN  IF hit = "TP_HIT"
             THEN [outcome |-> "TP_HIT", exit_price |-> lv.take_profit, exit_idx |-> i]
             ELSE IF hit = "SL_HIT"
             THEN [outcome |-> "SL_HIT", exit_price |-> lv.stop_loss, exit_idx |-> i]
             ELSE scan_rows(df, signal_type, lv, i + 1, last, dflt)

RECURSIVE scan(_, _, _, _, _, _)
\* the scan loop from row i to row last, ten rows at a time; it stops at the
\* first row that breaks
scan(df, signal_type, lv, i, last, dflt) ==
    IF i > last THEN dflt
    ELSE LET part == scan_rows(df, signal_type, lv, i, Min2(last, i + 9), dflt)
         IN  IF part.outcome # "TIME_EXPIRED" THEN part
             ELSE scan(df, signal_type, lv, i + 10, last, dflt)

\* "If not hit, use final candle close"
final_exit(df, ex) ==
    IF ex.outcome = "TIME_EXPIRED"
    THEN [ex EXCEPT !.exit_price = Num(iloc(df, ex.exit_idx).close)]
    ELSE ex

\* pnl_percent
pnl_of(signal_type, entry_price, exit_price) ==
    IF signal_type = "BUY"
    THEN FMul(FDiv(FSub(exit_price, entry_price), entry_price), Num(100))
    ELSE FMul(FDiv(FSub(entry_price, exit_price), entry_price), Num(100))

\* variant: the threshold itself counts as a win
is_win_at_least(pnl_percent) == FGe(pnl_percent, Rat(1, 2))

\* is_win = pnl_percent > 0.5
is_win(pnl_percent) == FGt(pnl_percent, Rat(1, 2))

\* one iteration of the loop over signals: the exit found and the row appended
simulate_one(signal, df) ==
    LET lv == levels(signal.signal_type, signal.entry_price, signal.atr)
        ex == final_exit(df,
                 scan(df, signal.signal_type, lv, signal.index + 1,
                      last_scanned(signal.index, Len(df)),
                      [outcome |-> "TIME_EXPIRED", exit_price |-> signal.entry_price,
                       exit_idx |-> default_exit_idx(signal.index, Len(df))]))
        pnl_percent == pnl_of(signal.signal_type, signal.entry_price, ex.exit_price)
    IN  [trade |-> [rsi |-> signal.rsi, macd |-> signal.macd,
                    macd_histogram |-> signal.macd_histogram,
                    ema_9 |-> signal.ema_9, ema_21 |-> signal.ema_21,
                    ema_50 |-> signal.ema_50, bb_width |-> signal.bb_width,
                    atr |-> signal.atr, volume_ratio |-> signal.volume_ratio,
                    price_momentum |-> signal.price_momentum,
                    signal_type |-> signal.signal_type,
                    confluence |-> signal.confluence,
                    pnl_percent |-> pnl_percent,
                    outcome |-> IF is_win(pnl_percent) THEN "WIN" ELSE "LOSS",
                    exit_reason |-> ex.outcome],
         exit |-> [stop_loss |-> lv.stop_loss, take_profit |-> lv.take_profit,
                   exit_price |-> ex.exit_price, exit_idx |-> ex.exit_idx]]

\* variant: the statistics cope with a table without rows
stats_raise_never(rows) == "none"

\* trades_df['outcome'] on the table built from the rows: pd.DataFrame([]) has
\* no columns, so the lookup raises KeyError when no row was appended
stats_raise(rows) == IF rows = <<>> THEN "KeyError" ELSE "none"

simulate_trades(sigs, df) ==
    LET each == built([k \in 1..Len(sigs) |-> simulate_one(sigs[k], df)])
        rows == [k \in 1..Len(each) |-> each[k].trade]
    IN  [raised |-> stats_raise(rows),
         trades |-> rows,
         exits |-> [k \in 1..Len(each) |-> each[k].exit]]

(***************************************************************************)
(* Inputs: the candle sequences fetch_historical_ohlcv may return.  A       *)
(* sequence is flat around 200 with one move at bar s, an optional bar ev   *)
(* whose high/low reach out, and an optional later change of the close.     *)
(* The shapes drop0 and rise0 are drop and rise with high = low = close on  *)
(* every bar.                                                               *)
(***************************************************************************)
MaxBars == 201

close_at(scn, i) ==
    IF scn.b > 0 /\ i >= scn.b THEN scn.bc
    ELSE IF scn.shape \in {"drop", "drop0"} THEN (IF i < scn.s THEN 201 ELSE 200)
    ELSE IF scn.shape \in {"rise", "rise0"} THEN (IF i < scn.s THEN 199 ELSE 200)
    ELSE IF scn.shape = "mix" THEN
        (IF i < scn.s - 1 THEN 204 ELSE IF i = scn.s - 1 THEN 207 ELSE 200)
    ELSE 200

volume_at(scn, i) ==
    IF scn.vol = "spike" THEN (IF i >= scn.s THEN 20 ELSE 10)
    ELSE IF scn.vol = "zero" THEN (IF i >= scn.s - 19 THEN 0 ELSE 10)
    ELSE 10

candle_at(scn, i) ==
    LET c == close_at(scn, i)
        r == IF scn.shape \in {"drop0", "rise0"} THEN 0
             ELSE IF i <= scn.s THEN 1 ELSE 0
    IN  [timestamp |-> i,
         open |-> c,
         high |-> IF i = scn.ev /\ scn.hi > 0 THEN scn.hi ELSE c + r,
         low |-> IF i = scn.ev /\ scn.lo > 0 THEN scn.lo ELSE c - r,
         close |-> c,
         volume |-> volume_at(scn, i)]

Series(scn) == [r \in 1..scn.n |-> candle_at(scn, r - 1)]

Scn(n, s, shape, vol, ev, hi, lo, b, bc) ==
    [n |-> n, s |-> s, shape |-> shape, vol |-> vol, ev |-> ev, hi |-> hi,
     lo |-> lo, b |-> b, bc |-> bc]

\* sequences about which bars become signals
SignalScenarios ==
    { Scn(n, s, shape, vol, 0, 0, 0, 0, 0) :
        n \in {WarmUp, WarmUp + 1, WarmUp + 16},
        s \in {WarmUp - 1, WarmUp},
        shape \in {"drop", "rise", "mix", "flat"},
        vol \in {"const", "spike", "zero"} }

\* the bar whose high or low reaches out: <<bar, high, low>> (0: as the close)
Events ==
    {<<0, 0, 0>>,
     <<WarmUp + 1, 250, 0>>, <<WarmUp + 1, 0, 150>>, <<WarmUp + 1, 250, 150>>,
     <<WarmUp + 1, 206, 0>>, <<WarmUp + 1, 0, 194>>,
     <<WarmUp + 1, 203, 0>>, <<WarmUp + 1, 0, 197>>,
     <<WarmUp + 100, 250, 0>>, <<WarmUp + 100, 0, 150>>, <<WarmUp + 100, 250, 150>>}

\* the later change of the close: <<bar, close from that bar on>>
Bumps ==
    {<<WarmUp + 60, 201>>, <<WarmUp + 100, 201>>, <<WarmUp + 100, 202>>,
     <<WarmUp + 100, 199>>}

\* sequences about what happens after a signal at bar 100
TradeScenarios ==
    { Scn(n, WarmUp, shape, "spike", e[1], e[2], e[3], 0, 0) :
        n \in {MaxBars - 1, MaxBars}, shape \in {"drop", "rise"}, e \in Events }
    \cup
    { Scn(n, WarmUp, shape, "spike", 0, 0, 0, b[1], b[2]) :
        n \in {MaxBars - 1, MaxBars}, shape \in {"drop", "rise"}, b \in Bumps }
    \cup
    { Scn(MaxBars, WarmUp, shape, "spike", WarmUp + 1, 250, 150, WarmUp + 100, 202) :
        shape \in {"drop", "rise"} }

\* sequences at the edges: the move within the first 14 bars; a first hit
\* followed, a few bars later, by a breach of the opposite level; candles
\* without range, whose ATR is a small fraction of the price
EdgeScenarios ==
    { Scn(WarmUp + 1, 5, shape, "const", 0, 0, 0, 0, 0) : shape \in {"drop", "rise"} }
    \cup
    { Scn(MaxBars, WarmUp, shape, "spike", WarmUp + 1, 206, 0, WarmUp + 5, 150) :
        shape \in {"drop", "rise"} }
    \cup
    { Scn(MaxBars, WarmUp, shape, "spike", WarmUp + 1, 0, 194, WarmUp + 5, 250) :
        shape \in {"drop", "rise"} }
    \cup
    { Scn(MaxBars, WarmUp, shape, "spike", WarmUp + 1, e[1], e[2], 0, 0) :
        shape \in {"drop0", "rise0"}, e \in {<<250, 0>>, <<0, 150>>} }

Scenarios == SignalScenarios \cup TradeScenarios \cup EdgeScenarios

\* the sequences of a batch run: no bar past the warm-up, one, three
BatchScenarios ==
    { Scn(WarmUp, WarmUp, "flat", "const", 0, 0, 0, 0, 0),
      Scn(WarmUp + 1, WarmUp, "drop", "spike", 0, 0, 0, 0, 0),
      Scn(WarmUp + 3, WarmUp, "rise", "spike", WarmUp + 2, 0, 150, 0, 0) }

\* values of the columns carried by profile: histogram sign, EMA order, band position
Ew(h, e9, e21, e50, p) ==
    [macd |-> Num(h), macd_histogram |-> Num(h), ema_9 |-> Num(e9),
     ema_21 |-> Num(e21), ema_50 |-> Num(e50), bb_width |-> Rat(1, 10),
     price_to_bb |-> Rat(p, 10)]

Profiles ==
    { Ew(1, 203, 202, 201, 1), Ew(1, 203, 202, 201, 5), Ew(1, 202, 202, 201, 1),
      Ew(-1, 201, 202, 203, 9), Ew(-1, 201, 202, 203, 5), Ew(-1, 202, 202, 203, 9),
      Ew(0, 203, 202, 201, 5), Ew(0, 201, 202, 203, 2) }

BatchProfiles == { Ew(1, 203, 202, 201, 1), Ew(-1, 201, 202, 203, 9) }

(***************************************************************************)
(* generate_dataset: the loop over coins, one step per call it makes        *)
(***************************************************************************)
NoTable == <<>>

InitWith(cs) ==
    /\ coins = cs
    /\ coin_idx = 1
    /\ pc = IF cs = <<>> THEN "combine" ELSE "fetch"
    /\ ohlcv = NoTable
    /\ ohlcv_with_indicators = NoTable
    /\ signals = <<>>
    /\ trades = NoTable
    /\ exits = <<>>
    /\ all_trades = <<>>
    /\ combined = NoTable
    /\ raised = "none"
    /\ processed = <<>>

Init == InitWith(<<"BTC">>)

\* the default instrument list of generate_dataset
DefaultCoins == <<"BTC", "ETH", "SOL", "BNB", "XRP">>

MaxCoins == 3

InitBatch == \E m \in 0..MaxCoins : InitWith(SubSeq(DefaultCoins, 1, m))

\* where the for loop goes after the current coin
next_pc == IF coin_idx < Len(coins) THEN "fetch" ELSE "combine"

\* ohlcv = self.fetch_historical_ohlcv(coin, days) returns
FetchFrom(family) ==
    /\ pc = "fetch"
    /\ \E scn \in family : ohlcv' = Series(scn)
    /\ pc' = "indicators"
    /\ UNCHANGED <<coins, coin_idx, ohlcv_with_indicators, signals, trades, exits,
                   all_trades, combined, raised, processed>>

Fetch == FetchFrom(Scenarios)

FetchBatch == FetchFrom(BatchScenarios)

\* both sources failed: raise Exception("Failed to fetch data for ...")
FetchFails ==
    /\ pc = "fetch"
    /\ raised' = "FetchFailed"
    /\ pc' = "except"
    /\ UNCHANGED <<coins, coin_idx, ohlcv, ohlcv_with_indicators, signals, trades,
                   exits, all_trades, combined, processed>>

CalculateIndicatorsWith(profiles) ==
    /\ pc = "indicators"
    /\ \E ew \in profiles : ohlcv_with_indicators' = calculate_indicators(ohlcv, ew)
    /\ pc' = "signals"
    /\ UNCHANGED <<coins, coin_idx, ohlcv, signals, trades, exits, all_trades,
                   combined, raised, processed>>

CalculateIndicators == CalculateIndicatorsWith(Profiles)

CalculateIndicatorsBatch == CalculateIndicatorsWith(BatchProfiles)

GenerateSignals ==
    /\ pc = "signals"
    /\ signals' = generate_signals(ohlcv_with_indicators)
    /\ pc' = "simulate"
    /\ UNCHANGED <<coins, coin_idx, ohlcv, ohlcv_with_indicators, trades, exits,
                   all_trades, combined, raised, processed>>

\* trades = self.simulate_trades(signals, ohlcv_with_indicators)
SimulateTrades ==
    /\ pc = "simulate"
    /\ LET r == simulate_trades(signals, ohlcv_with_indicators)
       IN  IF r.raised = "none"
           THEN /\ trades' = r.trades
                /\ exits' = r.exits
                /\ pc' = "tag"
                /\ UNCHANGED raised
           ELSE /\ raised' = r.raised
                /\ pc' = "except"
                /\ UNCHANGED <<trades, exits>>
    /\ UNCHANGED <<coins, coin_idx, ohlcv, ohlcv_with_indicators, signals,
                   all_trades, combined, processed>>

\* trades['coin'] = coin
tag(rows, coin) ==
    [k \in 1..Len(rows) |->
        [rsi |-> rows[k].rsi, macd |-> rows[k].macd,
         macd_histogram |-> rows[k].macd_histogram, ema_9 |-> rows[k].ema_9,
         ema_21 |-> rows[k].ema_21, ema_50 |-> rows[k].ema_50,
         bb_width |-> rows[k].bb_width, atr |-> rows[k].atr,
         volume_ratio |-> rows[k].volume_ratio,
         price_momentum |-> rows[k].price_momentum,
         signal_type |-> rows[k].signal_type, confluence |-> rows[k].confluence,
         pnl_percent |-> rows[k].pnl_percent, outcome |-> rows[k].outcome,
         exit_reason |-> rows[k].exit_reason, coin |-> coin]]

\* trades['coin'] = coin; all_trades.append(trades)
TagAndAppend ==
    /\ pc = "tag"
    /\ trades' = tag(trades, coins[coin_idx])
    /\ all_trades' = Append(all_trades, trades')
    /\ processed' = Append(processed,
                           [coin |-> coins[coin_idx], failed |-> FALSE,
                            error |-> "none", rows |-> trades])
    /\ coin_idx' = coin_idx + 1
    /\ pc' = next_pc
    /\ UNCHANGED <<coins, ohlcv, ohlcv_with_indicators, signals, exits, combined,
                   raised>>

\* variant: the except clause leaves the loop
except_pc_break == "combine"

\* where the except clause resumes: continue
except_pc == next_pc

\* except Exception as e: print(...); continue
Except ==
    /\ pc = "except"
    /\ processed' = Append(processed,
                           [coin |-> coins[coin_idx], failed |-> TRUE,
                            error |-> raised, rows |-> <<>>])
    /\ raised' = "none"
    /\ coin_idx' = coin_idx + 1
    /\ pc' = except_pc
    /\ UNCHANGED <<coins, ohlcv, ohlcv_with_indicators, signals, trades, exits,
                   all_trades, combined>>

RECURSIVE concat(_)
\* pd.concat(tables, ignore_index=True)
concat(tables) ==
    IF tables = <<>> THEN <<>> ELSE Head(tables) \o concat(Tail(tables))

\* the statistics printed for the combined table divide by len(combined)
final_stats_raise(table) == IF Len(table) = 0 THEN "ZeroDivisionError" ELSE "none"

\* if not all_trades: raise ...; combined = pd.concat(...); statistics; return
Combine ==
    /\ pc = "combine"
    /\ IF all_trades = <<>>
       THEN /\ raised' = "NoTrainingData"
            /\ pc' = "failed"
            /\ UNCHANGED combined
       ELSE /\ combined' = concat(all_trades)
            /\ raised' = final_stats_raise(combined')
            /\ pc' = IF raised' = "none" THEN "done" ELSE "failed"
    /\ UNCHANGED <<coins, coin_idx, ohlcv, ohlcv_with_indicators, signals, trades,
                   exits, all_trades, processed>>

Next ==
    \/ Fetch
    \/ FetchFails
    \/ CalculateIndicators
    \/ GenerateSignals
    \/ SimulateTrades
    \/ TagAndAppend
    \/ Except
    \/ Combine

Spec == Init /\ [][Next]_vars

NextBatch ==
    \/ FetchBatch
    \/ FetchFails
    \/ CalculateIndicatorsBatch
    \/ GenerateSignals
    \/ SimulateTrades
    \/ TagAndAppend
    \/ Except
    \/ Combine

SpecBatch == InitBatch /\ [][NextBatch]_vars

(***************************************************************************)
(* Properties.  simulate_trades has just returned when pc = "tag", and      *)
(* generate_signals when pc = "simulate": signals, trades and exits then    *)
(* belong to the table in ohlcv_with_indicators.                            *)
(***************************************************************************)
NRows == Len(ohlcv_with_indicators)

Bar(i) == iloc(ohlcv_with_indicators, i)

\* the take-profit and stop-loss conditions of bar i for trade k, as stated:
\* BUY: high >= TP, low <= SL; SELL: low <= TP, high >= SL
TpAt(k, i) ==
    IF signals[k].signal_type = "BUY"
    THEN FGe(Num(Bar(i).high), exits[k].take_profit)
    ELSE FLe(Num(Bar(i).low), exits[k].take_profit)

SlAt(k, i) ==
    IF signals[k].signal_type = "BUY"
    THEN FLe(Num(Bar(i).low), exits[k].stop_loss)
    ELSE FGe(Num(Bar(i).high), exits[k].stop_loss)

\* the rows the scan loop of trade k visits
ScannedBars(k) == (signals[k].index + 1)..last_scanned(signals[k].index, NRows)

\* the rows from signal_index+1 to min(signal_index+100, N-1)
HorizonBars(k) == (signals[k].index + 1)..Min2(signals[k].index + 100, NRows - 1)

NoEarlierHit(k, i) ==
    \A j \in (signals[k].index + 1)..(i - 1) : ~TpAt(k, j) /\ ~SlAt(k, j)

\* C1: a scanned bar that satisfies both the take-profit and the stop-loss
\* condition, with no earlier bar closing the trade, ends the trade as TP_HIT
\* at exit_price = TP, for BUY and for SELL
C1_TakeProfitFirst ==
    pc = "tag" =>
        \A k \in 1..Len(signals) :
            \A i \in ScannedBars(k) :
                (TpAt(k, i) /\ SlAt(k, i) /\ NoEarlierHit(k, i)) =>
                    /\ trades[k].exit_reason = "TP_HIT"
                    /\ FEq(exits[k].exit_price, exits[k].take_profit)

C1_Witness ==
    /\ pc = "tag"
    /\ \E k \in 1..Len(signals) :
           /\ signals[k].signal_type = "SELL"
           /\ \E i \in ScannedBars(k) :
                  TpAt(k, i) /\ SlAt(k, i) /\ NoEarlierHit(k, i)
           /\ trades[k].exit_reason = "TP_HIT"

\* C2: a take-profit or stop-loss breach on any bar from signal_index+1 to
\* min(signal_index+100, N-1), the bar at signal_index+100 included, ends the
\* trade as TP_HIT or SL_HIT and not as TIME_EXPIRED
C2_BreachWithinHorizonCloses ==
    pc = "tag" =>
        \A k \in 1..Len(signals) :
            (\E i \in HorizonBars(k) : TpAt(k, i) \/ SlAt(k, i)) =>
                trades[k].exit_reason \in {"TP_HIT", "SL_HIT"}

\* C3: with no breach on any scanned bar the trade is TIME_EXPIRED, and a
\* TIME_EXPIRED trade exits at the close of the bar at
\* min(signal_index+100, N-1), the last bar when the series ends earlier
C3_TimeExpiredExit ==
    pc = "tag" =>
        \A k \in 1..Len(signals) :
            LET at == Min2(signals[k].index + 100, NRows - 1)
            IN  /\ (\A i \in ScannedBars(k) : ~TpAt(k, i) /\ ~SlAt(k, i)) =>
                       trades[k].exit_reason = "TIME_EXPIRED"
                /\ trades[k].exit_reason = "TIME_EXPIRED" =>
                       /\ exits[k].exit_idx = at
                       /\ FEq(exits[k].exit_price, Num(Bar(at).close))

C3_Witness ==
    /\ pc = "tag"
    /\ \E k \in 1..Len(signals) :
           /\ trades[k].exit_reason = "TIME_EXPIRED"
           /\ signals[k].index + 100 > NRows - 1
           /\ exits[k].exit_idx = NRows - 1
           /\ ~FEq(exits[k].exit_price, signals[k].entry_price)

\* (exit - entry)/entry * 100 for BUY, (entry - exit)/entry * 100 for SELL
StatedPnl(k) ==
    LET entry == signals[k].entry_price
        exit == exits[k].exit_price
    IN  IF signals[k].signal_type = "BUY"
        THEN FMul(FDiv(FSub(exit, entry), entry), Num(100))
        ELSE FMul(FDiv(FSub(entry, exit), entry), Num(100))

\* C4: pnl_percent is the stated formula of entry and exit price, and the
\* label is WIN exactly when pnl_percent > 0.5, whatever the exit_reason
C4_PnlAndLabel ==
    pc = "tag" =>
        \A k \in 1..Len(signals) :
            /\ Same(trades[k].pnl_percent, StatedPnl(k))
            /\ trades[k].outcome \in {"WIN", "LOSS"}
            /\ trades[k].outcome = "WIN" <=> FGt(trades[k].pnl_percent, Rat(1, 2))

C4_Witness ==
    /\ pc = "tag"
    /\ \E k \in 1..Len(signals) :
           /\ FEq(trades[k].pnl_percent, Rat(1, 2))
           /\ trades[k].outcome = "LOSS"

\* the confluence rules as the design states them, on one row
RuleType(row) ==
    IF FLt(row.rsi, Num(30)) THEN "BUY"
    ELSE IF FGt(row.rsi, Num(70)) THEN "SELL" ELSE "None"

RuleScore(row) ==
    LET t == RuleType(row)
    IN  (IF t # "None" THEN 20 ELSE 0)
        + (IF \/ t = "BUY" /\ FGt(row.macd_histogram, Num(0))
              \/ t = "SELL" /\ FLt(row.macd_histogram, Num(0)) THEN 15 ELSE 0)
        + (IF \/ t = "BUY" /\ FGt(row.ema_9, row.ema_21) /\ FGt(row.ema_21, row.ema_50)
              \/ t = "SELL" /\ FLt(row.ema_9, row.ema_21) /\ FLt(row.ema_21, row.ema_50)
           THEN 15 ELSE 0)
        + (IF \/ t = "BUY" /\ FLt(row.price_to_bb, Rat(2, 10))
              \/ t = "SELL" /\ FGt(row.price_to_bb, Rat(8, 10)) THEN 10 ELSE 0)
        + (IF FGt(row.volume_ratio, Rat(12, 10)) THEN 10 ELSE 0)

\* bar i is one a Signal is due for
Qualifies(i) ==
    /\ i >= 100
    /\ ~isna(Bar(i).rsi) /\ ~isna(Bar(i).macd)
    /\ RuleType(Bar(i)) # "None"
    /\ RuleScore(Bar(i)) >= 50

\* C5: a Signal is emitted for bar i exactly when i >= 100, RSI and MACD are
\* defined, the RSI rule set a signal_type and the confluence is >= 50; every
\* Signal has a type, confluence >= 50, index >= 100 and an RSI outside [30, 70]
C5_EmittedIffQualifies ==
    pc = "simulate" =>
        /\ {signals[k].index : k \in 1..Len(signals)}
               = {i \in 0..(NRows - 1) : Qualifies(i)}
        /\ \A k \in 1..Len(signals) :
               /\ signals[k].signal_type \in {"BUY", "SELL"}
               /\ signals[k].signal_type = RuleType(Bar(signals[k].index))
               /\ signals[k].confluence >= 50
               /\ signals[k].confluence = RuleScore(Bar(signals[k].index))
               /\ signals[k].index >= 100
               /\ ~(FGe(signals[k].rsi, Num(30)) /\ FLe(signals[k].rsi, Num(70)))
        /\ \A k \in 1..(Len(signals) - 1) : signals[k].index < signals[k + 1].index

C5_Witness ==
    /\ pc = "simulate"
    /\ NRows > 100
    /\ RuleType(Bar(99)) # "None" /\ RuleScore(Bar(99)) >= 50
    /\ Len(signals) > 0
    /\ signals[1].index = 100
    /\ \E i \in 100..(NRows - 1) :
           ~Qualifies(i) /\ RuleType(Bar(i)) # "None" /\ RuleScore(Bar(i)) = 45

\* the rules re-applied to what a Signal stores; price_to_bb is not stored
Recompute(sig) ==
    RuleScore([rsi |-> sig.rsi, macd_histogram |-> sig.macd_histogram,
               ema_9 |-> sig.ema_9, ema_21 |-> sig.ema_21, ema_50 |-> sig.ema_50,
               volume_ratio |-> sig.volume_ratio, price_to_bb |-> NaN])

\* C6: re-applying the confluence rules to the values stored in a Signal
\* yields the Signal's stored confluence
C6_RecomputeFromSnapshot ==
    pc = "simulate" =>
        \A k \in 1..Len(signals) : Recompute(signals[k]) = signals[k].confluence

\* C9: simulate_trades never raises and returns one trade per Signal, in
\* signal order, the empty list of Signals included
C9_SimulateNeverRaises ==
    /\ pc = "except" => raised # "KeyError"
    /\ pc = "tag" =>
           /\ Len(trades) = Len(signals)
           /\ \A k \in 1..Len(signals) :
                  /\ trades[k].signal_type = signals[k].signal_type
                  /\ trades[k].confluence = signals[k].confluence
                  /\ Same(trades[k].atr, signals[k].atr)

\* C10: every indicator value stored in an emitted Signal is defined
C10_SnapshotDefined ==
    pc = "simulate" =>
        \A k \in 1..Len(signals) :
            /\ ~isna(signals[k].rsi) /\ ~isna(signals[k].macd)
            /\ ~isna(signals[k].macd_histogram)
            /\ ~isna(signals[k].ema_9) /\ ~isna(signals[k].ema_21)
            /\ ~isna(signals[k].ema_50) /\ ~isna(signals[k].bb_width)
            /\ ~isna(signals[k].atr) /\ ~isna(signals[k].volume_ratio)
            /\ ~isna(signals[k].price_momentum)

\* the fall of the close into bar j (0 on the first bar and when it rose)
Fall(j) == IF j = 0 THEN 0 ELSE Max2(0, Bar(j - 1).close - Bar(j).close)

RECURSIVE FallsFrom(_, _)
\* the sum of the falls over bars j..i
FallsFrom(j, i) == IF j > i THEN 0 ELSE Fall(j) + FallsFrom(j + 1, i)

\* 14 times the average loss of the 14 bars ending at bar i, i >= 13
LossSum(i) == FallsFrom(i - 13, i)

\* C11: RSI is undefined on bars 0..13 of every candle sequence and on every
\* bar whose 14-bar average loss is zero; a defined RSI lies in [0, 100]
C11_RsiUndefinedEarlyAndFlat ==
    pc = "signals" =>
        \A i \in 0..(NRows - 1) :
            /\ i <= 13 => isna(Bar(i).rsi)
            /\ (i >= 13 /\ LossSum(i) = 0) => isna(Bar(i).rsi)
            /\ ~isna(Bar(i).rsi) =>
                   FGe(Bar(i).rsi, Num(0)) /\ FLe(Bar(i).rsi, Num(100))

\* C12: no stage changes another stage's output in place: calculate_indicators
\* leaves the candles as they were, generate_signals and simulate_trades leave
\* the indicator table and the Signals as they were, and generate_dataset
\* leaves the table returned by simulate_trades as it was
C12_NoInPlaceMutation ==
    [][/\ pc = "indicators" => ohlcv' = ohlcv
       /\ pc \in {"signals", "simulate"} =>
              ohlcv_with_indicators' = ohlcv_with_indicators
       /\ pc = "simulate" => signals' = signals
       /\ pc = "tag" => trades' = trades]_vars

HasHit(k) == \E i \in ScannedBars(k) : TpAt(k, i) \/ SlAt(k, i)

\* the earliest scanned bar on which the TP or the SL condition of trade k holds
FirstHit(k) ==
    CHOOSE i \in ScannedBars(k) : (TpAt(k, i) \/ SlAt(k, i)) /\ NoEarlierHit(k, i)

\* the P/L of trade k, as stated, were it closed at price x
PnlAt(k, x) ==
    LET entry == signals[k].entry_price
    IN  IF signals[k].signal_type = "BUY"
        THEN FMul(FDiv(FSub(x, entry), entry), Num(100))
        ELSE FMul(FDiv(FSub(entry, x), entry), Num(100))

\* C13: the earliest scanned bar on which the TP or the SL condition holds
\* fixes exit_reason, exit_price, pnl_percent and outcome of the trade; no
\* later bar changes them, one that breaches the opposite level included
C13_TerminalOnFirstHit ==
    pc = "tag" =>
        \A k \in 1..Len(signals) :
            HasHit(k) =>
                LET i == FirstHit(k)
                    level == IF TpAt(k, i) THEN exits[k].take_profit
                             ELSE exits[k].stop_loss
                IN  /\ exits[k].exit_idx = i
                    /\ trades[k].exit_reason = (IF TpAt(k, i) THEN "TP_HIT" ELSE "SL_HIT")
                    /\ FEq(exits[k].exit_price, level)
                    /\ Same(trades[k].pnl_percent, PnlAt(k, level))
                    /\ trades[k].outcome =
                           (IF FGt(PnlAt(k, level), Rat(1, 2)) THEN "WIN" ELSE "LOSS")

C13_Witness ==
    /\ pc = "tag"
    /\ \E k \in 1..Len(signals) :
           /\ HasHit(k)
           /\ trades[k].exit_reason = "SL_HIT"
           /\ exits[k].exit_idx = FirstHit(k)
           /\ \E j \in ScannedBars(k) :
                  j > FirstHit(k) /\ TpAt(k, j) /\ ~SlAt(k, j)

\* the MACD and the EMA-alignment rule on the values a Signal stores
MacdRule(sig) ==
    \/ sig.signal_type = "BUY" /\ FGt(sig.macd_histogram, Num(0))
    \/ sig.signal_type = "SELL" /\ FLt(sig.macd_histogram, Num(0))

EmaRule(sig) ==
    \/ sig.signal_type = "BUY" /\ FGt(sig.ema_9, sig.ema_21) /\ FGt(sig.ema_21, sig.ema_50)
    \/ sig.signal_type = "SELL" /\ FLt(sig.ema_9, sig.ema_21) /\ FLt(sig.ema_21, sig.ema_50)

\* C14: the confluence of every emitted Signal is 50, 55, 60 or 70, never
\* more than 70, and the Signal satisfies the RSI rule and at least one of
\* the MACD and EMA-alignment rules
C14_ConfluenceValues ==
    pc = "simulate" =>
        \A k \in 1..Len(signals) :
            /\ signals[k].confluence \in {50, 55, 60, 70}
            /\ signals[k].confluence <= 70
            /\ FLt(signals[k].rsi, Num(30)) \/ FGt(signals[k].rsi, Num(70))
            /\ MacdRule(signals[k]) \/ EmaRule(signals[k])

C14_Witness ==
    /\ pc = "simulate"
    /\ \E k \in 1..Len(signals) :
           /\ signals[k].confluence = 55
           /\ MacdRule(signals[k]) /\ ~EmaRule(signals[k])
    /\ \E i \in 100..(NRows - 1) :
           RuleType(Bar(i)) # "None" /\ RuleScore(Bar(i)) = 45

\* C15: with entry_price > 0 and a defined ATR >= 0, a trade closed SL_HIT has
\* pnl_percent = -150*ATR/entry_price <= 0 and is a LOSS; a trade closed
\* TP_HIT has pnl_percent = 300*ATR/entry_price however far the bar went past
\* TP, and is a WIN only when that value exceeds 0.5
C15_LevelPnl ==
    pc = "tag" =>
        \A k \in 1..Len(signals) :
            LET entry == signals[k].entry_price
                atr == signals[k].atr
                at_sl == FDiv(FMul(Num(-150), atr), entry)
                at_tp == FDiv(FMul(Num(300), atr), entry)
            IN  (FGt(entry, Num(0)) /\ ~isna(atr) /\ FGe(atr, Num(0))) =>
                    /\ trades[k].exit_reason = "SL_HIT" =>
                           /\ Same(trades[k].pnl_percent, at_sl)
                           /\ FLe(trades[k].pnl_percent, Num(0))
                           /\ trades[k].outcome = "LOSS"
                    /\ trades[k].exit_reason = "TP_HIT" =>
                           /\ Same(trades[k].pnl_percent, at_tp)
                           /\ trades[k].outcome = "WIN" <=> FGt(at_tp, Rat(1, 2))

C15_Witness ==
    /\ pc = "tag"
    /\ \E k \in 1..Len(signals) :
           /\ trades[k].exit_reason = "TP_HIT"
           /\ signals[k].signal_type = "BUY"
           /\ FGt(Num(Bar(exits[k].exit_idx).high), exits[k].take_profit)
           /\ FGt(trades[k].pnl_percent, Num(0))
           /\ trades[k].outcome = "LOSS"

(***************************************************************************)
(* Properties of generate_dataset, over the log of finished coins           *)
(***************************************************************************)
\* the rows of a finished coin, each with that coin's identifier
RowsOf(entry) ==
    [k \in 1..Len(entry.rows) |->
        [coin |-> entry.coin, signal_type |-> entry.rows[k].signal_type,
         confluence |-> entry.rows[k].confluence,
         pnl_percent |-> entry.rows[k].pnl_percent,
         outcome |-> entry.rows[k].outcome,
         exit_reason |-> entry.rows[k].exit_reason,
         atr |-> entry.rows[k].atr]]

RECURSIVE RowsInOrder(_)
\* the rows of the coins that did not fail, in the order the coins finished
RowsInOrder(log) ==
    IF log = <<>> THEN <<>>
    ELSE (IF Head(log).failed THEN <<>> ELSE RowsOf(Head(log))) \o RowsInOrder(Tail(log))

Returned ==
    [k \in 1..Len(combined) |->
        [coin |-> combined[k].coin, signal_type |-> combined[k].signal_type,
         confluence |-> combined[k].confluence,
         pnl_percent |-> combined[k].pnl_percent,
         outcome |-> combined[k].outcome,
         exit_reason |-> combined[k].exit_reason,
         atr |-> combined[k].atr]]

LoopOver == pc \in {"combine", "done", "failed"}

\* C7: the coins are processed one at a time in list order; a coin that fails
\* is skipped and the rest are still processed; the result is the rows of the
\* coins that did not fail, in list order and signal order, each row carrying
\* its own coin
C7_SkipFailedKeepOrder ==
    /\ Len(processed) <= Len(coins)
    /\ \A j \in 1..Len(processed) : processed[j].coin = coins[j]
    /\ Len(processed) = (IF LoopOver THEN Len(coins) ELSE coin_idx - 1)
    /\ pc = "tag" =>
           /\ Len(trades) = Len(signals)
           /\ \A k \in 1..Len(signals) : Same(trades[k].rsi, signals[k].rsi)
           /\ \A k \in 1..(Len(signals) - 1) :
                  signals[k].timestamp < signals[k + 1].timestamp
    /\ pc = "done" => Returned = RowsInOrder(processed)

C7_Witness ==
    /\ pc = "done"
    /\ Len(coins) = 3
    /\ processed[1].failed /\ processed[1].error = "FetchFailed"
    /\ ~processed[2].failed /\ Len(processed[2].rows) = 3
    /\ ~processed[3].failed
    /\ combined[Len(combined)].coin = coins[3]

ProducedRows == \E j \in 1..Len(processed) : Len(processed[j].rows) > 0

\* C8: generate_dataset raises the 'no data' error exactly when no coin
\* produced a row; otherwise it returns a table, and a returned table is
\* never empty
C8_FatalIffNoRows ==
    /\ pc = "failed" => raised = "NoTrainingData" /\ ~ProducedRows
    /\ pc = "done" => ProducedRows /\ Len(combined) > 0 /\ raised = "none"
    /\ (LoopOver /\ ProducedRows) => pc # "failed"

C8_Witness ==
    /\ pc = "done"
    /\ \E j \in 1..Len(processed) : processed[j].error = "KeyError"
    /\ Len(combined) > 0

====
